---- MODULE Spec2Model ----
(***************************************************************************)
(* The video split operation of the no-code-architects-toolkit:            *)
(*   services/v1/video/split.py  time_to_seconds, split_video              *)
(*   routes/v1/video/split.py    video_split                               *)
(* One operation is one call of video_split(job_id, data): it calls        *)
(* split_video (download, probe, validate every request, encode every      *)
(* accepted request), then uploads the outputs and removes local files.    *)
(*                                                                         *)
(* Strings the code parses are sequences of one-character strings.  Times  *)
(* are integers counting 1/Scale of a second (Python floats in the code).  *)
(***************************************************************************)
EXTENDS Integers, Sequences, FiniteSets, TLC

\* ------------------------------------------------------------------ bounds
\* Longest list of segment requests an operation is given.
MaxSplits == 3

\* ------------------------------------------------------------- constants
\* Job identifiers (job_id); the queue wrapper hands one to video_split.
Jobs == {"j1", "j2"}

\* Resolution of the modelled floats: values are multiples of 1/Scale s.
Scale == 10

\* file_duration = 86400, the fallback of split_video.
FallbackDuration == 86400

\* A Python int of more than this many significant decimal digits is above
\* the largest float (about 1.8e308): converting it to float raises
\* OverflowError, and float() of such a digit string is inf.
FloatMaxDigits == 309

\* float('inf'): above every finite time of the model.
Inf == 1000000000

\* None, for a field that otherwise holds a path.
NoPath == [job |-> "None", kind |-> "None", n |-> 0]

\* None, for a field that otherwise holds an error message.
NoError == [kind |-> "None"]

\* ------------------------------------------------------ time_to_seconds
DigitChars == <<"0", "1", "2", "3", "4", "5", "6", "7", "8", "9">>

DigitSet == {DigitChars[i] : i \in 1..10}

DigitVal(c) == (CHOOSE i \in 1..10 : DigitChars[i] = c) - 1

\* Positions of ':' in a string.
ColonPos(s) == {i \in 1..Len(s) : s[i] = ":"}

\* The k-th field (1-based) of s.split(':').
Field(s, k) ==
    LET cp == ColonPos(s)
        lo == IF k = 1 THEN 0
              ELSE CHOOSE i \in cp : Cardinality({j \in cp : j < i}) = k - 2
        hi == IF k = Cardinality(cp) + 1 THEN Len(s) + 1
              ELSE CHOOSE i \in cp : Cardinality({j \in cp : j < i}) = k - 1
    IN  SubSeq(s, lo + 1, hi - 1)

\* time_str.split(':')
StrSplit(s) == [k \in 1..(Cardinality(ColonPos(s)) + 1) |-> Field(s, k)]

\* A numeric literal without its sign.
Unsigned(f) == IF f # <<>> /\ f[1] \in {"-", "+"} THEN Tail(f) ELSE f

Sign(f) == IF f # <<>> /\ f[1] = "-" THEN -1 ELSE 1

\* int(f) does not raise ValueError: an optional sign and decimal digits.
IsIntLit(f) ==
    LET u == Unsigned(f)
    IN  u # <<>> /\ \A i \in 1..Len(u) : u[i] \in DigitSet

\* float(f) does not raise ValueError: an optional sign, decimal digits with
\* at most one '.', at least one digit.
IsFloatLit(f) ==
    LET u == Unsigned(f)
    IN  /\ \A i \in 1..Len(u) : u[i] \in DigitSet \cup {"."}
        /\ Cardinality({i \in 1..Len(u) : u[i] = "."}) <= 1
        /\ \E i \in 1..Len(u) : u[i] \in DigitSet

\* Number of digits of a digit string after its leading zeros.
SigDigits(u) ==
    LET nz == {i \in 1..Len(u) : u[i] # "0"}
    IN  IF nz = {} THEN 0
        ELSE Len(u) + 1 - (CHOOSE i \in nz : \A j \in nz : i <= j)

RECURSIVE NatVal(_)
\* The value of a (short) digit string.
NatVal(u) ==
    IF u = <<>> THEN 0
    ELSE NatVal(SubSeq(u, 1, Len(u) - 1)) * 10 + DigitVal(u[Len(u)])

\* int(f) is too large to convert to float.
IsHugeInt(f) == SigDigits(Unsigned(f)) > FloatMaxDigits

\* int(f), for a literal that is not huge.
IntOf(f) == Sign(f) * NatVal(Unsigned(f))

\* float(f) in units of 1/Scale: the integer part, and the first fractional
\* digit (the strings of the model carry at most one); inf for a huge
\* integer part.
FloatOf(f) ==
    LET u    == Unsigned(f)
        dots == {i \in 1..Len(u) : u[i] = "."}
        dot  == IF dots = {} THEN Len(u) + 1 ELSE CHOOSE i \in dots : TRUE
        ip   == SubSeq(u, 1, dot - 1)
        fp   == SubSeq(u, dot + 1, Len(u))
    IN  IF SigDigits(ip) > FloatMaxDigits THEN Sign(f) * Inf
        ELSE Sign(f) * (NatVal(ip) * Scale
                        + (IF fp = <<>> THEN 0 ELSE DigitVal(fp[1])))

\* <int> + <float>: the int is converted to float and added.
AddFloat(n, x) == IF x = Inf \/ x = -Inf THEN x ELSE n * Scale + x

\* The ValueError time_to_seconds raises.
InvalidTimeFormat(s) == [kind |-> "Invalid time format", time_str |-> s]

\* time_to_seconds(time_str): the seconds, or the exception raised.  Every
\* field is converted before the final sum, so a ValueError of any field
\* comes before the OverflowError of the sum.
time_to_seconds(s) ==
    LET parts == StrSplit(s)
        bad   == [tag |-> "ValueError", val |-> 0, msg |-> InvalidTimeFormat(s)]
        over  == [tag |-> "OverflowError", val |-> 0, msg |-> NoError]
        ok(v) == [tag |-> "ok", val |-> v, msg |-> NoError]
    IN  IF Len(parts) = 3 THEN
            IF ~(IsIntLit(parts[1]) /\ IsIntLit(parts[2]) /\ IsFloatLit(parts[3]))
            THEN bad
            ELSE IF IsHugeInt(parts[1]) \/ IsHugeInt(parts[2]) THEN over
            ELSE ok(AddFloat(IntOf(parts[1]) * 3600 + IntOf(parts[2]) * 60,
                             FloatOf(parts[3])))
        ELSE IF Len(parts) = 2 THEN
            IF ~(IsIntLit(parts[1]) /\ IsFloatLit(parts[2])) THEN bad
            ELSE IF IsHugeInt(parts[1]) THEN over
            ELSE ok(AddFloat(IntOf(parts[1]) * 60, FloatOf(parts[2])))
        ELSE
            IF ~IsFloatLit(s) THEN bad ELSE ok(FloatOf(s))

\* ------------------------------------------------------------- the inputs
\* Digit string of FloatMaxDigits + 1 nines: as an int it is above every float.
Nines == [i \in 1..(FloatMaxDigits + 1) |-> "9"]

\* The segment requests {"start": ..., "end": ...} an operation may be given
\* (the payload schema asks for two strings and nothing more).
Requests ==
    { [start |-> <<"-", "5">>,           end |-> <<"7", ".", "5">>],
      [start |-> <<"5">>,                end |-> <<"1", "0">>],
      [start |-> <<"1", "0">>,           end |-> <<"5">>],
      [start |-> <<"a", "b", "c">>,      end |-> <<"5">>],
      [start |-> <<"0", ":", "0", "5">>, end |-> <<"1", ".", "5", ":", "0">>],
      [start |-> Nines \o <<":", "0">>,  end |-> <<"5">>],
      [start |-> <<"8">>,                end |-> <<"0", ":", "0", ":", "1", "0">>] }

\* data['splits']: 1..MaxSplits requests ("minItems": 1), indexed from 0.
SplitLists == UNION {[0..(n - 1) -> Requests] : n \in 1..MaxSplits}

\* What ffprobe prints on stdout (stripped): a duration, "N/A", or nothing
\* (which is also what a failed ffprobe run leaves).
ProbeStdouts == {<<"8", ".", "0">>, <<"N", "/", "A">>, <<>>}

\* What ffmpeg prints on stderr (stripped) when it exits non-zero.
ConversionFailed == "Conversion failed!"

InvalidArgument == "Invalid argument"

\* How one run of ffmpeg ends: its exit code, its stderr, and whether the
\* output file exists afterwards (a failed run may leave a partial file).
EncodeOutcomes ==
    { [returncode |-> 0, stderr |-> "",               wrote |-> TRUE],
      [returncode |-> 1, stderr |-> ConversionFailed, wrote |-> TRUE],
      [returncode |-> 1, stderr |-> InvalidArgument,  wrote |-> FALSE] }

\* ------------------------------------------------------------------ state
VARIABLES
    pc,             \* pc[j]: where operation j is
    splits,         \* splits[j]: data['splits'] of operation j
    results,        \* results[j]: the results list of split_video
    file_duration,  \* file_duration[j]
    valid_splits,   \* valid_splits[j]: the accepted descriptors
    vi,             \* vi[j]: index i of the validation loop
    ei,             \* ei[j]: index of the encode loop
    input_filename, \* input_filename[j]
    response,       \* response[j]: the response list of video_split
    http,           \* http[j]: the status code video_split returned (0: none)
    message,        \* message[j]: str(e) returned with a 500
    fs,             \* the paths that exist under LOCAL_STORAGE_PATH
    encLog,         \* the ffmpeg runs so far, in order
    upLog           \* the upload_file calls so far, in order

vars == <<pc, splits, results, file_duration, valid_splits, vi, ei,
          input_filename, response, http, message, fs, encLog, upLog>>

\* os.path.join(LOCAL_STORAGE_PATH, f"{job_id}_input"), as download_file
\* returns it.
InputPath(j) == [job |-> j, kind |-> "input", n |-> 0]

\* os.path.join(LOCAL_STORAGE_PATH, f"{job_id}_split_{n}{ext}")
SplitPathWithoutJob(j, n) == [job |-> "j1", kind |-> "split", n |-> n]

SplitPath(j, n) == [job |-> j, kind |-> "split", n |-> n]

\* The sentinel every result starts as.
Unprocessed == [status |-> "error", output_file |-> NoPath,
                error |-> [kind |-> "Unprocessed"]]

\* f"Invalid split: start ({start}) must be before end ({end}) within duration"
InvalidSplit(split) ==
    [kind |-> "Invalid split", start |-> split.start, end |-> split.end]

\* f"FFmpeg error: {process.stderr.strip()}"
FFmpegError(stderr) == [kind |-> "FFmpeg error", stderr |-> stderr]

ErrorResult(err) == [status |-> "error", output_file |-> NoPath, error |-> err]

\* The result of a request whose clamped range is empty.
RejectedResultUnmarked(split) == Unprocessed

RejectedResult(split) == ErrorResult(InvalidSplit(split))

OkResult(path) == [status |-> "ok", output_file |-> path, error |-> NoError]

\* len(splits)
NumSplits(j) == Cardinality(DOMAIN splits[j])

\* results[j] with slot i replaced by r.
SetResult(j, i, r) == [results EXCEPT ![j] = [@ EXCEPT ![i] = r]]

\* The state before any request has arrived, with the operations of `active`
\* waiting for their request.
InitWith(active) ==
    /\ pc = [j \in Jobs |-> IF j \in active THEN "idle" ELSE "off"]
    /\ splits = [j \in Jobs |-> <<>>]
    /\ results = [j \in Jobs |-> <<>>]
    /\ file_duration = [j \in Jobs |-> 0]
    /\ valid_splits = [j \in Jobs |-> <<>>]
    /\ vi = [j \in Jobs |-> 0]
    /\ ei = [j \in Jobs |-> 0]
    /\ input_filename = [j \in Jobs |-> NoPath]
    /\ response = [j \in Jobs |-> <<>>]
    /\ http = [j \in Jobs |-> 0]
    /\ message = [j \in Jobs |-> NoError]
    /\ fs = {}
    /\ encLog = <<>>
    /\ upLog = <<>>

Init == InitWith({"j1"})

\* POST /v1/video/split: video_split(job_id, data) is called.
Request(j) ==
    /\ pc[j] = "idle"
    /\ \E sp \in SplitLists : splits' = [splits EXCEPT ![j] = sp]
    /\ pc' = [pc EXCEPT ![j] = "start"]
    /\ UNCHANGED <<results, file_duration, valid_splits, vi, ei, input_filename,
                   response, http, message, fs, encLog, upLog>>

\* video_split's except clause: return str(e), "/v1/video/split", 500.
Fail500(j, msg) ==
    /\ pc' = [pc EXCEPT ![j] = "done"]
    /\ http' = [http EXCEPT ![j] = 500]
    /\ message' = [message EXCEPT ![j] = msg]

\* split_video up to the try: download_file, then the results list.  A
\* download that raises leaves no file and goes to video_split's except.
Acquire(j) ==
    /\ pc[j] = "start"
    /\ \/ /\ input_filename' = [input_filename EXCEPT ![j] = InputPath(j)]
          /\ fs' = fs \cup {InputPath(j)}
          /\ results' = [results EXCEPT
                           ![j] = [i \in DOMAIN splits[j] |-> Unprocessed]]
          /\ pc' = [pc EXCEPT ![j] = "probe"]
          /\ UNCHANGED <<http, message>>
       \/ /\ Fail500(j, [kind |-> "download failed"])
          /\ UNCHANGED <<input_filename, fs, results>>
    /\ UNCHANGED <<splits, file_duration, valid_splits, vi, ei, response,
                   encLog, upLog>>

\* An exception leaves the try block of split_video: the except clause
\* will run next.
Raise(j, msg) ==
    /\ pc' = [pc EXCEPT ![j] = "raised"]
    /\ message' = [message EXCEPT ![j] = msg]

\* float(duration_result.stdout.strip()), or the fallback on ValueError.
ProbedDuration(stdout) ==
    IF IsFloatLit(stdout) THEN FloatOf(stdout) ELSE FallbackDuration * Scale

\* The probe: subprocess.run(probe_cmd) and the duration.  subprocess.run
\* raises OSError when ffprobe cannot be started; that is outside the inner
\* try.
Probe(j) ==
    /\ pc[j] = "probe"
    /\ \/ \E stdout \in ProbeStdouts :
            /\ file_duration' = [file_duration EXCEPT ![j] = ProbedDuration(stdout)]
            /\ valid_splits' = [valid_splits EXCEPT ![j] = <<>>]
            /\ vi' = [vi EXCEPT ![j] = 0]
            /\ pc' = [pc EXCEPT ![j] = "validate"]
            /\ UNCHANGED message
       \/ /\ Raise(j, [kind |-> "OSError", what |-> "ffprobe"])
          /\ UNCHANGED <<file_duration, valid_splits, vi>>
    /\ UNCHANGED <<splits, results, ei, input_filename, response, http, fs,
                   encLog, upLog>>

\* One descriptor of valid_splits: (i, start_seconds, end_seconds, split).
Descriptor(i, start_seconds, end_seconds, split) ==
    [split_index |-> i, start_seconds |-> start_seconds,
     end_seconds |-> end_seconds, split |-> split]

\* The normalised start: a negative start becomes 0.
ClampStart(start_seconds) == IF start_seconds < 0 THEN 0 ELSE start_seconds

\* The normalised end: an end beyond the duration becomes the duration.
ClampEndMissing(end_seconds, duration) == end_seconds

ClampEnd(end_seconds, duration) ==
    IF end_seconds > duration THEN duration ELSE end_seconds

\* `if start_seconds < end_seconds`, on the normalised bounds.
AcceptsOrEqual(start_seconds, end_seconds) == start_seconds <= end_seconds

Accepts(start_seconds, end_seconds) == start_seconds < end_seconds

\* The body of the validation loop for request i = vi[j]: parse start, then
\* end; normalise; accept or mark invalid.  `except ValueError` records the
\* parser's message; any other exception leaves the loop and the try block.
ValidateSplit(j) ==
    /\ pc[j] = "validate"
    /\ vi[j] < NumSplits(j)
    /\ LET i     == vi[j]
           split == splits[j][i]
           ps    == time_to_seconds(split.start)
           pe    == time_to_seconds(split.end)
           s     == ClampStart(ps.val)
           e     == ClampEnd(pe.val, file_duration[j])
           first == IF ps.tag # "ok" THEN ps ELSE pe
       IN  IF first.tag = "ok" THEN
               /\ IF Accepts(s, e)
                  THEN /\ valid_splits' = [valid_splits EXCEPT
                                ![j] = Append(@, Descriptor(i, s, e, split))]
                       /\ UNCHANGED results
                  ELSE /\ results' = SetResult(j, i, RejectedResult(split))
                       /\ UNCHANGED valid_splits
               /\ vi' = [vi EXCEPT ![j] = i + 1]
               /\ UNCHANGED <<pc, message>>
           ELSE IF first.tag = "ValueError" THEN
               /\ results' = SetResult(j, i, ErrorResult(first.msg))
               /\ vi' = [vi EXCEPT ![j] = i + 1]
               /\ UNCHANGED <<pc, message, valid_splits>>
           ELSE
               /\ Raise(j, [kind |-> first.tag, what |-> "time_to_seconds"])
               /\ UNCHANGED <<results, vi, valid_splits>>
    /\ UNCHANGED <<splits, file_duration, ei, input_filename, response, http,
                   fs, encLog, upLog>>

\* split_video returns (results, input_filename) to video_split, which
\* starts its loop over the results.
ReturnToRoute(j) ==
    /\ pc' = [pc EXCEPT ![j] = "upload"]
    /\ response' = [response EXCEPT ![j] = <<>>]

\* `if not valid_splits: return results, input_filename`
NoValidSplitsRaises(j) ==
    /\ pc[j] = "validate"
    /\ vi[j] = NumSplits(j)
    /\ valid_splits[j] = <<>>
    /\ Raise(j, [kind |-> "ValueError", what |-> "no valid splits"])
    /\ UNCHANGED <<splits, results, file_duration, valid_splits, vi, ei,
                   input_filename, response, http, fs, encLog, upLog>>

NoValidSplits(j) ==
    /\ pc[j] = "validate"
    /\ vi[j] = NumSplits(j)
    /\ valid_splits[j] = <<>>
    /\ ReturnToRoute(j)
    /\ UNCHANGED <<splits, results, file_duration, valid_splits, vi, ei,
                   input_filename, http, message, fs, encLog, upLog>>

\* Validation is over and some request was accepted: the encode loop starts.
BeginEncodeEarly(j) ==
    /\ pc[j] = "validate"
    /\ valid_splits[j] # <<>>
    /\ pc' = [pc EXCEPT ![j] = "encode"]
    /\ ei' = [ei EXCEPT ![j] = 0]
    /\ UNCHANGED <<splits, results, file_duration, valid_splits, vi,
                   input_filename, response, http, message, fs, encLog, upLog>>

BeginEncode(j) ==
    /\ pc[j] = "validate"
    /\ vi[j] = NumSplits(j)
    /\ valid_splits[j] # <<>>
    /\ pc' = [pc EXCEPT ![j] = "encode"]
    /\ ei' = [ei EXCEPT ![j] = 0]
    /\ UNCHANGED <<splits, results, file_duration, valid_splits, vi,
                   input_filename, response, http, message, fs, encLog, upLog>>

\* The record of one ffmpeg run in encLog.
EncodeCall(j, d, out, o) ==
    [job |-> j, split_index |-> d.split_index, ss |-> d.start_seconds,
     to |-> d.end_seconds, input |-> input_filename[j], output |-> out,
     returncode |-> o.returncode, stderr |-> o.stderr, wrote |-> o.wrote]

\* The number in the output file name: split_index + 1.
OutputNumberByPosition(d, index) == index + 1

OutputNumber(d, index) == d.split_index + 1

\* The result slot an encode writes: results[split_index].
EncodeSlotByPosition(d, index) == index

EncodeSlotFirst(d, index) == 0

EncodeSlot(d, index) == d.split_index

\* The loop index after the run of position `index`: the next descriptor,
\* whatever the exit code (`continue` after a failure).
NextIndexBreakOnError(j, index, o) ==
    IF o.returncode # 0 THEN Len(valid_splits[j]) ELSE index + 1

NextIndexSkipsOne(j, index, o) == index + 2

NextEncodeIndex(j, index, o) == index + 1

\* The result an ffmpeg run is recorded as.
EncodeResultKeepsPath(o, out) ==
    IF o.returncode # 0
    THEN [status |-> "error", output_file |-> out, error |-> FFmpegError(o.stderr)]
    ELSE OkResult(out)

EncodeResult(o, out) ==
    IF o.returncode # 0 THEN ErrorResult(FFmpegError(o.stderr)) ELSE OkResult(out)

\* The body of the encode loop for descriptor valid_splits[ei[j]]: run
\* ffmpeg, record the result in the descriptor's slot.  subprocess.run
\* raises OSError when ffmpeg cannot be started.
EncodeSplit(j) ==
    /\ pc[j] = "encode"
    /\ ei[j] < Len(valid_splits[j])
    /\ LET index == ei[j]
           d     == valid_splits[j][index + 1]
           out   == SplitPath(j, OutputNumber(d, index))
       IN  \/ \E o \in EncodeOutcomes :
                /\ encLog' = Append(encLog, EncodeCall(j, d, out, o))
                /\ fs' = IF o.wrote THEN fs \cup {out} ELSE fs
                /\ results' = SetResult(j, EncodeSlot(d, index), EncodeResult(o, out))
                /\ ei' = [ei EXCEPT ![j] = NextEncodeIndex(j, index, o)]
                /\ UNCHANGED <<pc, message>>
           \/ /\ Raise(j, [kind |-> "OSError", what |-> "ffmpeg"])
              /\ UNCHANGED <<encLog, fs, results, ei>>
    /\ UNCHANGED <<splits, file_duration, valid_splits, vi, input_filename,
                   response, http, upLog>>

\* The encode loop is over: `return results, input_filename`.
ReturnResults(j) ==
    /\ pc[j] = "encode"
    /\ ei[j] = Len(valid_splits[j])
    /\ ReturnToRoute(j)
    /\ UNCHANGED <<splits, results, file_duration, valid_splits, vi, ei,
                   input_filename, http, message, fs, encLog, upLog>>

\* The output files split_video's except clause removes: those of the
\* results recorded as ok that exist.
OkOutputs(j) ==
    {results[j][i].output_file : i \in {k \in DOMAIN results[j] :
                                          results[j][k].status = "ok"}} \cap fs

\* The files split_video's except clause removes: the input file if it
\* exists, and the ok outputs.
HandlerRemovesOutputsOnly(j) == OkOutputs(j)

HandlerRemoves(j) == ({input_filename[j]} \cap fs) \cup OkOutputs(j)

\* split_video's except clause (remove, re-raise), then video_split's
\* except clause (500 with str(e)).
HandleException(j) ==
    /\ pc[j] = "raised"
    /\ fs' = fs \ HandlerRemoves(j)
    /\ Fail500(j, message[j])
    /\ UNCHANGED <<splits, results, file_duration, valid_splits, vi, ei,
                   input_filename, response, encLog, upLog>>

\* The URL upload_file returns for a local path.
CloudUrl(path) == [url |-> path]

NoUrl == [url |-> NoPath]

\* One item of the response list.
Item(idx, split, file_url, err) ==
    [index |-> idx, start |-> split.start, end |-> split.end,
     file_url |-> file_url, error |-> err]

\* The files the route removes after a successful upload of `path`.
UploadRemovesNothing(path) == {}

UploadRemoves(path) == {path}

\* The body of video_split's loop for idx = len(response): upload an ok
\* output and remove it, or carry the result's error.  A failed upload
\* (upload_file raises) becomes the item's error.
UploadItem(j) ==
    /\ pc[j] = "upload"
    /\ Len(response[j]) < NumSplits(j)
    /\ LET idx == Len(response[j])
           r   == results[j][idx]
           sp  == splits[j][idx]
       IN  IF r.status = "ok" /\ r.output_file # NoPath THEN
               \/ /\ r.output_file \in fs
                  /\ upLog' = Append(upLog, [job |-> j, path |-> r.output_file,
                                              ok |-> TRUE])
                  /\ response' = [response EXCEPT ![j] =
                        Append(@, Item(idx, sp, CloudUrl(r.output_file), NoError))]
                  /\ fs' = fs \ UploadRemoves(r.output_file)
               \/ /\ upLog' = Append(upLog, [job |-> j, path |-> r.output_file,
                                              ok |-> FALSE])
                  /\ response' = [response EXCEPT ![j] =
                        Append(@, Item(idx, sp, NoUrl, [kind |-> "Upload failed"]))]
                  /\ UNCHANGED fs
           ELSE
               /\ response' = [response EXCEPT ![j] =
                        Append(@, Item(idx, sp, NoUrl, r.error))]
               /\ UNCHANGED <<fs, upLog>>
    /\ UNCHANGED <<pc, splits, results, file_duration, valid_splits, vi, ei,
                   input_filename, http, message, encLog>>

\* The files the route removes once the loop is over: the input file.
FinishRemoves(j) == {input_filename[j]}

\* After the loop: os.remove(input_filename), return response, 200.
FinishRoute(j) ==
    /\ pc[j] = "upload"
    /\ Len(response[j]) = NumSplits(j)
    /\ fs' = fs \ FinishRemoves(j)
    /\ pc' = [pc EXCEPT ![j] = "done"]
    /\ http' = [http EXCEPT ![j] = 200]
    /\ UNCHANGED <<splits, results, file_duration, valid_splits, vi, ei,
                   input_filename, response, message, encLog, upLog>>

Next ==
    \E j \in Jobs :
        \/ Request(j)
        \/ Acquire(j)
        \/ Probe(j)
        \/ ValidateSplit(j)
        \/ NoValidSplits(j)
        \/ BeginEncode(j)
        \/ EncodeSplit(j)
        \/ ReturnResults(j)
        \/ HandleException(j)
        \/ UploadItem(j)
        \/ FinishRoute(j)

Spec == Init /\ [][Next]_vars

\* ------------------------------------------- two operations at the same time
\* Longest list of segment requests of an operation that runs beside another.
MaxConcSplits == 1

\* The requests given to operations that run beside another: one that is
\* accepted and one that is rejected.
ConcRequests ==
    { [start |-> <<"5">>,      end |-> <<"1", "0">>],
      [start |-> <<"1", "0">>, end |-> <<"5">>] }

ConcSplitLists == UNION {[0..(n - 1) -> ConcRequests] : n \in 1..MaxConcSplits}

\* Both operations are queued; the queue runs them on the same local storage.
InitConc == InitWith(Jobs)

\* POST /v1/video/split, with a list of ConcSplitLists.
ConcRequest(j) ==
    /\ pc[j] = "idle"
    /\ \E sp \in ConcSplitLists : splits' = [splits EXCEPT ![j] = sp]
    /\ pc' = [pc EXCEPT ![j] = "start"]
    /\ UNCHANGED <<results, file_duration, valid_splits, vi, ei, input_filename,
                   response, http, message, fs, encLog, upLog>>

NextConc ==
    \E j \in Jobs :
        \/ ConcRequest(j)
        \/ Acquire(j)
        \/ Probe(j)
        \/ ValidateSplit(j)
        \/ NoValidSplits(j)
        \/ BeginEncode(j)
        \/ EncodeSplit(j)
        \/ ReturnResults(j)
        \/ HandleException(j)
        \/ UploadItem(j)
        \/ FinishRoute(j)

SpecConc == InitConc /\ [][NextConc]_vars

\* ------------------------------------------------------------ the claims
\* split_video got past download_file: results and input_filename exist.
Acquired(j) == input_filename[j] # NoPath

\* split_video returned normally to video_split.
Returned(j) == pc[j] = "upload" \/ (pc[j] = "done" /\ http[j] = 200)

Max(a, b) == IF a >= b THEN a ELSE b

Min(a, b) == IF a <= b THEN a ELSE b

\* What time_to_seconds gives for the start and for the end of every request
\* of the model, computed once.
ParsedStart == [r \in Requests |-> time_to_seconds(r.start)]

ParsedEnd == [r \in Requests |-> time_to_seconds(r.end)]

\* Parsing the start or the end of a request fails.
ParseFails(split) == ParsedStart[split].tag # "ok" \/ ParsedEnd[split].tag # "ok"

\* The message of the first parse that fails: start before end.
ParserMessage(split) ==
    IF ParsedStart[split].tag # "ok" THEN ParsedStart[split].msg
    ELSE ParsedEnd[split].msg

\* The bounds of a request that parses, after clamping against duration d.
NormStart(split) == Max(ParsedStart[split].val, 0)

NormEnd(split, d) == Min(ParsedEnd[split].val, d)

\* A request that parses and whose clamped start is not before its clamped end.
RangeEmpty(split, d) == ~ParseFails(split) /\ ~(NormStart(split) < NormEnd(split, d))

\* The positions in encLog of the ffmpeg runs of operation j for request i.
RunsOf(j, i) ==
    {k \in 1..Len(encLog) : encLog[k].job = j /\ encLog[k].split_index = i}

\* r is the outcome of request i of operation j: the validator's error for
\* request i, or the recorded result of an ffmpeg run made for request i,
\* with the bounds of request i and the output path named after i + 1.
IsOutcomeOf(j, i, r) ==
    LET split == splits[j][i]
    IN  \/ /\ ParseFails(split)
           /\ r = ErrorResult(ParserMessage(split))
        \/ /\ RangeEmpty(split, file_duration[j])
           /\ r = ErrorResult(InvalidSplit(split))
        \/ /\ ~ParseFails(split)
           /\ \E k \in RunsOf(j, i) :
                /\ encLog[k].output = SplitPath(j, i + 1)
                /\ encLog[k].ss = NormStart(split)
                /\ encLog[k].to = NormEnd(split, file_duration[j])
                /\ r = IF encLog[k].returncode = 0
                       THEN OkResult(encLog[k].output)
                       ELSE ErrorResult(FFmpegError(encLog[k].stderr))

\* C1: in every state after the results list is initialised, results has
\* one entry per request of splits; every entry is the sentinel or the
\* outcome of the request of its own index; and when split_video has
\* returned normally every entry is the outcome of the request of its index.
C1_ResultsAligned ==
    \A j \in Jobs :
        Acquired(j) =>
            /\ DOMAIN results[j] = DOMAIN splits[j]
            /\ \A i \in DOMAIN results[j] :
                 \/ ~Returned(j) /\ results[j][i] = Unprocessed
                 \/ IsOutcomeOf(j, i, results[j][i])

\* C1's case: three requests, the first rejected by the validator, the
\* second encoded, the third failed in ffmpeg, and split_video has returned.
C1_Witness ==
    \E j \in Jobs :
        /\ pc[j] = "done" /\ http[j] = 200
        /\ NumSplits(j) = 3
        /\ results[j][0].error.kind = "Invalid split"
        /\ results[j][1].status = "ok"
        /\ results[j][2].error.kind = "FFmpeg error"

\* C2: once the encode loop has handled a descriptor, ffmpeg has run exactly
\* once for it and its result is ok with its own output path if and only if
\* that run exited zero, error without a path otherwise, whatever the other
\* runs did; descriptors not yet handled have no run; and when split_video
\* has returned, every descriptor has been handled.
C2_EncodeIndependence ==
    \A j \in Jobs :
        (pc[j] = "encode" \/ Returned(j)) =>
            /\ Returned(j) => ei[j] = Len(valid_splits[j])
            /\ \A p \in 1..Len(valid_splits[j]) :
                 LET i    == valid_splits[j][p].split_index
                     r    == results[j][i]
                     runs == RunsOf(j, i)
                 IN  IF p <= ei[j]
                     THEN /\ Cardinality(runs) = 1
                          /\ \A k \in runs :
                               /\ (encLog[k].returncode = 0) <=>
                                    (r.status = "ok" /\ r.output_file = SplitPath(j, i + 1))
                               /\ (encLog[k].returncode # 0) <=>
                                    (r.status = "error" /\ r.output_file = NoPath)
                               /\ (encLog[k].returncode = 0 /\ pc[j] = "upload"
                                   /\ Len(response[j]) <= i) => r.output_file \in fs
                     ELSE runs = {}

\* C2's case: segment 2 of 3 accepted segments failed in ffmpeg, and
\* segments 1 and 3 are ok.
C2_Witness ==
    \E j \in Jobs :
        /\ pc[j] = "upload" /\ response[j] = <<>>
        /\ Len(valid_splits[j]) = 3
        /\ results[j][0].status = "ok" /\ results[j][0].output_file \in fs
        /\ results[j][1].error.kind = "FFmpeg error"
        /\ results[j][2].status = "ok" /\ results[j][2].output_file \in fs

\* C3: a request that parses and whose clamped start is not strictly before
\* its clamped end has, once validated, the result status=error with the
\* "Invalid split" message and no output path, and ffmpeg never runs for it.
C3_Rejection ==
    \A j \in Jobs :
        Acquired(j) =>
            \A i \in DOMAIN splits[j] :
                RangeEmpty(splits[j][i], file_duration[j]) =>
                    /\ RunsOf(j, i) = {}
                    /\ \A p \in 1..Len(valid_splits[j]) :
                         valid_splits[j][p].split_index # i
                    /\ vi[j] > i =>
                         /\ results[j][i].status = "error"
                         /\ results[j][i].output_file = NoPath
                         /\ results[j][i].error = InvalidSplit(splits[j][i])

\* C3's case: a request rejected only because its end was clamped to the
\* probed duration, in an operation that encoded another request.
C3_Witness ==
    \E j \in Jobs :
        /\ pc[j] = "done" /\ http[j] = 200
        /\ encLog # <<>>
        /\ \E i \in DOMAIN splits[j] :
             /\ RangeEmpty(splits[j][i], file_duration[j])
             /\ ~RangeEmpty(splits[j][i], FallbackDuration * Scale)

\* The string of a request whose parse fails first: start before end.
FailingString(split) ==
    IF ParsedStart[split].tag # "ok" THEN split.start ELSE split.end

\* The operation failed at the download or because ffprobe or ffmpeg could
\* not be started.
FailedOutsideSegments(j) == message[j].kind \in {"download failed", "OSError"}

\* C4: when an operation ends without having failed at the download or at a
\* process that could not be started, every request whose start or end fails
\* to parse has status=error with the parser's message for the failing
\* string in its own slot and no ffmpeg run, and every other request has its
\* own outcome.
C4_ParseErrorLocal ==
    \A j \in Jobs :
        (pc[j] = "done" /\ ~FailedOutsideSegments(j)) =>
            \A i \in DOMAIN splits[j] :
                IF ParseFails(splits[j][i])
                THEN /\ results[j][i] =
                          ErrorResult(InvalidTimeFormat(FailingString(splits[j][i])))
                     /\ RunsOf(j, i) = {}
                ELSE IsOutcomeOf(j, i, results[j][i])

\* C5: when an operation that acquired its source media has ended, with a
\* 200 or with a 500, the source media is not on local storage.
C5_SourceDeleted ==
    \A j \in Jobs :
        (pc[j] = "done" /\ Acquired(j)) =>
            /\ input_filename[j] = InputPath(j)
            /\ input_filename[j] \notin fs

\* C5's case: an operation that failed after it had acquired its source and
\* run ffmpeg.
C5_Witness ==
    \E j \in Jobs :
        /\ pc[j] = "done" /\ http[j] = 500
        /\ Acquired(j)
        /\ RunsOf(j, 0) # {}

\* The paths operation j created: its source media and the outputs its
\* ffmpeg runs left.
Created(j) ==
    (IF Acquired(j) THEN {input_filename[j]} ELSE {})
    \cup {encLog[k].output :
            k \in {n \in 1..Len(encLog) : encLog[n].job = j /\ encLog[n].wrote}}

\* C6: when an operation has ended, none of the paths it created is on
\* local storage.
C6_ArtifactsDeleted ==
    \A j \in Jobs : pc[j] = "done" => Created(j) \cap fs = {}

\* C7: when an operation has failed after acquisition, its source media and
\* every output recorded as ok are removed, the caller has a 500 with one
\* message and no response list, and no output of the operation is on local
\* storage.
C7_FailureCleanup ==
    \A j \in Jobs :
        (pc[j] = "done" /\ http[j] = 500 /\ Acquired(j)) =>
            /\ input_filename[j] \notin fs
            /\ \A i \in DOMAIN results[j] :
                 results[j][i].status = "ok" => results[j][i].output_file \notin fs
            /\ message[j] # NoError
            /\ response[j] = <<>>
            /\ \A f \in fs : ~(f.job = j /\ f.kind = "split")

\* C8: the probe never fails the operation: no operation is in its
\* exception handler, or has ended, because of the probe.
C8_ProbeNeverFatal ==
    \A j \in Jobs :
        pc[j] \in {"raised", "done"} =>
            message[j] # [kind |-> "OSError", what |-> "ffprobe"]

\* C9: an operation ends with a 500 only if the download failed or a
\* process could not be started; otherwise it ends with a 200 and a
\* response of one item per request, item k carrying index k.
C9_SegmentFailuresRecovered ==
    \A j \in Jobs :
        pc[j] = "done" =>
            IF FailedOutsideSegments(j) THEN http[j] = 500
            ELSE /\ http[j] = 200
                 /\ Len(response[j]) = NumSplits(j)
                 /\ \A k \in 1..Len(response[j]) : response[j][k].index = k - 1

\* Validation is over and has accepted no request.
ValidatedNone(j) ==
    Acquired(j) /\ vi[j] = NumSplits(j) /\ valid_splits[j] = <<>>

\* C10: once validation has accepted no request, ffmpeg is never run, every
\* result is status=error with the validation message of its own request,
\* and the operation goes on to return: it ends with a 200, a response of
\* one item per request carrying that error, and the source media removed.
C10_NoneAccepted ==
    \A j \in Jobs :
        ValidatedNone(j) =>
            /\ pc[j] \in {"validate", "upload", "done"}
            /\ \A k \in 1..Len(encLog) : encLog[k].job # j
            /\ \A i \in DOMAIN results[j] :
                 /\ results[j][i].status = "error"
                 /\ results[j][i].output_file = NoPath
                 /\ results[j][i].error.kind \in {"Invalid split", "Invalid time format"}
                 /\ IsOutcomeOf(j, i, results[j][i])
            /\ pc[j] = "done" =>
                 /\ http[j] = 200
                 /\ Len(response[j]) = NumSplits(j)
                 /\ \A i \in DOMAIN results[j] :
                      /\ response[j][i + 1].error = results[j][i].error
                      /\ response[j][i + 1].file_url = NoUrl
                 /\ input_filename[j] \notin fs

\* C10's case: two requests, one with start after end and one that does not
\* parse, and the operation has ended.
C10_Witness ==
    \E j \in Jobs :
        /\ pc[j] = "done"
        /\ ValidatedNone(j)
        /\ NumSplits(j) = 2
        /\ results[j][0].error.kind = "Invalid split"
        /\ results[j][1].error.kind = "Invalid time format"

\* C11: in every state after the results list is initialised, every result
\* is status=ok with an output path and no error, or status=error with no
\* output path and an error message.
C11_ResultShapes ==
    \A j \in Jobs :
        Acquired(j) =>
            \A i \in DOMAIN results[j] :
                LET r == results[j][i]
                IN  \/ r.status = "ok" /\ r.output_file # NoPath /\ r.error = NoError
                    \/ r.status = "error" /\ r.output_file = NoPath /\ r.error # NoError

\* C11's case: results holds the sentinel, a validator error, an ok result
\* and an ffmpeg error at once.
C11_Witness ==
    \E j \in Jobs :
        /\ pc[j] = "encode"
        /\ NumSplits(j) = 3
        /\ results[j][0].error.kind = "Invalid time format"
        /\ results[j][1].status = "ok"
        /\ results[j][2] = Unprocessed

\* The paths operation j has written, read as its own, or recorded: its
\* source media, the input and output of its ffmpeg runs, the files it
\* uploaded, and the output paths in its results.
PathsOf(j) ==
    ({input_filename[j]} \ {NoPath})
    \cup {encLog[k].input : k \in {n \in 1..Len(encLog) : encLog[n].job = j}}
    \cup {encLog[k].output : k \in {n \in 1..Len(encLog) : encLog[n].job = j}}
    \cup {upLog[k].path : k \in {n \in 1..Len(upLog) : upLog[n].job = j}}
    \cup ({results[j][i].output_file : i \in DOMAIN results[j]} \ {NoPath})

\* Operation j took the step: something of its own state changed.
Stepped(j) ==
    <<pc[j], vi[j], ei[j], response[j], results[j], valid_splits[j]>>' #
    <<pc[j], vi[j], ei[j], response[j], results[j], valid_splits[j]>>

\* C12: with two operations of different job identifiers running on the same
\* local storage in any interleaving, every path an operation writes, reads
\* or records carries its own job identifier, the path sets of the two
\* operations are disjoint, and a step creates or deletes only paths of the
\* operation that takes it.
C12_DisjointPaths ==
    /\ [](\A j \in Jobs :
            /\ \A f \in PathsOf(j) : f.job = j
            /\ \A o \in Jobs \ {j} : PathsOf(j) \cap PathsOf(o) = {})
    /\ [][\A f \in (fs \ fs') \cup (fs' \ fs) :
            \A j \in Jobs : Stepped(j) => f.job = j]_vars

\* C12's case: both operations have their source media and an output on
\* local storage at the same time.
C12_Witness ==
    /\ InputPath("j1") \in fs /\ SplitPath("j1", 1) \in fs
    /\ InputPath("j2") \in fs /\ SplitPath("j2", 1) \in fs

\* C13: an operation that has ended is in exactly one terminal state, with a
\* 200 (Completed) or a 500 (Failed), and one whose source acquisition
\* succeeded has ended with a 200.
C13_CompletedAfterAcquire ==
    \A j \in Jobs :
        pc[j] = "done" =>
            /\ http[j] \in {200, 500}
            /\ Acquired(j) => http[j] = 200

\* The positions in encLog of the ffmpeg runs of operation j.
JobRuns(j) == {k \in 1..Len(encLog) : encLog[k].job = j}

\* C14: the ffmpeg runs of an operation are in strictly increasing order of
\* original index; a run exists only after the probe and after every request
\* has been validated; and every run in the log has finished and has its
\* result recorded in its slot (the runs so far are exactly the descriptors
\* the loop has passed), so no run starts before the previous one is recorded.
C14_SequentialEncodes ==
    \A j \in Jobs :
        /\ \A k1, k2 \in JobRuns(j) :
             k1 < k2 => encLog[k1].split_index < encLog[k2].split_index
        /\ JobRuns(j) # {} =>
             /\ pc[j] \in {"encode", "raised", "upload", "done"}
             /\ vi[j] = NumSplits(j)
             /\ Cardinality(JobRuns(j)) = ei[j]
             /\ \A p \in 1..ei[j] :
                  \E k \in JobRuns(j) :
                     /\ encLog[k].split_index = valid_splits[j][p].split_index
                     /\ Cardinality({n \in JobRuns(j) : n <= k}) = p
                     /\ results[j][encLog[k].split_index] # Unprocessed

\* C14's case: ffmpeg has run for requests 0 and 2, request 1 was rejected.
C14_Witness ==
    \E j \in Jobs :
        /\ pc[j] = "encode"
        /\ Cardinality(JobRuns(j)) = 2
        /\ RunsOf(j, 0) # {} /\ RunsOf(j, 2) # {}
        /\ results[j][1].error.kind = "Invalid split"

\* The positions in valid_splits[j] of the descriptors of request i.
DescriptorsOf(j, i) ==
    {p \in 1..Len(valid_splits[j]) : valid_splits[j][p].split_index = i}

\* Request i of operation j passes validation: it parses and its clamped
\* start is before its clamped end.
PassesValidation(j, i) ==
    ~ParseFails(splits[j][i]) /\ ~RangeEmpty(splits[j][i], file_duration[j])

\* C15: a request the validation loop has passed has a descriptor if and
\* only if it passed validation, and then exactly one; a request not yet
\* validated has none; ffmpeg never runs for a request without a descriptor
\* and never twice for one request; and when split_video has returned,
\* ffmpeg has run exactly once for every descriptor.
C15_DescriptorsConsumedOnce ==
    \A j \in Jobs :
        Acquired(j) =>
            \A i \in DOMAIN splits[j] :
                /\ Cardinality(DescriptorsOf(j, i)) =
                     (IF i < vi[j] /\ PassesValidation(j, i) THEN 1 ELSE 0)
                /\ Cardinality(RunsOf(j, i)) <= Cardinality(DescriptorsOf(j, i))
                /\ Returned(j) =>
                     Cardinality(RunsOf(j, i)) = Cardinality(DescriptorsOf(j, i))

\* C15's case: a completed operation with two descriptors and one request
\* without a descriptor.
C15_Witness ==
    \E j \in Jobs :
        /\ pc[j] = "done" /\ http[j] = 200
        /\ Len(valid_splits[j]) = 2
        /\ NumSplits(j) = 3
        /\ Len(encLog) = 2

\* C16: a validated request that parses is accepted exactly when
\* max(s, 0) < min(e, d); its descriptor carries start = max(s, 0) and
\* end = min(e, d); and every ffmpeg run is made with those bounds, which
\* satisfy 0 <= start < end <= duration.
C16_ClampAndAccept ==
    \A j \in Jobs :
        Acquired(j) =>
            /\ \A i \in DOMAIN splits[j] :
                 (i < vi[j] /\ ~ParseFails(splits[j][i])) =>
                    LET s == ParsedStart[splits[j][i]].val
                        e == ParsedEnd[splits[j][i]].val
                        d == file_duration[j]
                    IN  /\ (DescriptorsOf(j, i) # {}) <=> (Max(s, 0) < Min(e, d))
                        /\ \A p \in DescriptorsOf(j, i) :
                             /\ valid_splits[j][p].start_seconds = Max(s, 0)
                             /\ valid_splits[j][p].end_seconds = Min(e, d)
            /\ \A k \in JobRuns(j) :
                 LET split == splits[j][encLog[k].split_index]
                 IN  /\ encLog[k].ss = Max(ParsedStart[split].val, 0)
                     /\ encLog[k].to = Min(ParsedEnd[split].val, file_duration[j])
                     /\ 0 <= encLog[k].ss
                     /\ encLog[k].ss < encLog[k].to
                     /\ encLog[k].to <= file_duration[j]

\* C16's case: ffmpeg has run for a request with a negative start, from 0,
\* and for a request whose end is beyond the probed duration, up to the
\* duration.
C16_Witness ==
    \E j \in Jobs :
        \E k1, k2 \in JobRuns(j) :
            /\ ParsedStart[splits[j][encLog[k1].split_index]].val < 0
            /\ encLog[k1].ss = 0
            /\ ParsedEnd[splits[j][encLog[k2].split_index]].val > file_duration[j]
            /\ encLog[k2].to = file_duration[j]

\* C17: the output of the ffmpeg run for the request of 0-based index i is
\* named with the job identifier and i + 1 and its result goes to slot i:
\* an ok result in slot i holds the path numbered i + 1 of its own job, and
\* two runs of one operation never share an output path.
C17_OutputNaming ==
    \A j \in Jobs :
        /\ \A k \in JobRuns(j) :
             /\ encLog[k].output = SplitPath(j, encLog[k].split_index + 1)
             /\ encLog[k].output.n = encLog[k].split_index + 1
             /\ \A n \in JobRuns(j) : n # k => encLog[n].output # encLog[k].output
        /\ Acquired(j) =>
             \A i \in DOMAIN results[j] :
                results[j][i].status = "ok" =>
                    /\ results[j][i].output_file.job = j
                    /\ results[j][i].output_file.n = i + 1
                    /\ \E k \in RunsOf(j, i) :
                         encLog[k].output = results[j][i].output_file

\* C17's case: the only accepted request is the third of the list: its
\* output is numbered 3, not 1.
C17_Witness ==
    \E j \in Jobs :
        /\ Len(valid_splits[j]) = 1
        /\ NumSplits(j) = 3
        /\ results[j][2].status = "ok"
        /\ results[j][2].output_file = SplitPath(j, 3)
        /\ results[j][2].output_file \in fs

\* The upload attempts of operation j, as positions in upLog.
UploadsOf(j) == {k \in 1..Len(upLog) : upLog[k].job = j}

\* The upload attempts made for result idx of operation j.
UploadsFor(j, idx) ==
    {k \in UploadsOf(j) : upLog[k].path = SplitPath(j, idx + 1)}

\* C18: video_split attempts the upload of each ok output exactly once and
\* in index order, removes an output only after its upload succeeded, never
\* uploads for an error result, keeps the source until all results are
\* handled, and a failed upload makes only its own item an error: item k
\* carries index k and the response of a completed operation has one item
\* per requested segment.
C18_CallerUploads ==
    \A j \in Jobs :
        /\ UploadsOf(j) # {} => pc[j] \in {"upload", "done"} /\ http[j] # 500
        /\ \A k1, k2 \in UploadsOf(j) :
             k1 < k2 => upLog[k1].path.n < upLog[k2].path.n
        /\ (pc[j] = "upload" \/ (pc[j] = "done" /\ http[j] = 200)) =>
             /\ Len(response[j]) <= NumSplits(j)
             /\ pc[j] = "upload" => input_filename[j] \in fs
             /\ pc[j] = "done" =>
                  /\ Len(response[j]) = NumSplits(j)
                  /\ input_filename[j] \notin fs
             /\ \A idx \in DOMAIN results[j] :
                  LET r       == results[j][idx]
                      handled == idx < Len(response[j])
                      item    == response[j][idx + 1]
                  IN  /\ ~handled =>
                           /\ UploadsFor(j, idx) = {}
                           /\ r.status = "ok" => r.output_file \in fs
                      /\ handled =>
                           /\ item.index = idx
                           /\ item.start = splits[j][idx].start
                           /\ item.end = splits[j][idx].end
                      /\ (handled /\ r.status # "ok") =>
                           /\ UploadsFor(j, idx) = {}
                           /\ item.file_url = NoUrl
                           /\ item.error = r.error
                      /\ (handled /\ r.status = "ok") =>
                           /\ Cardinality(UploadsFor(j, idx)) = 1
                           /\ \A k \in UploadsFor(j, idx) :
                                IF upLog[k].ok
                                THEN /\ item.file_url = CloudUrl(r.output_file)
                                     /\ item.error = NoError
                                     /\ r.output_file \notin fs
                                ELSE /\ item.file_url = NoUrl
                                     /\ item.error = [kind |-> "Upload failed"]
                                     /\ r.output_file \in fs

\* C18's case: a completed operation whose first upload failed and whose
\* later upload succeeded, with an error result among its segments.
C18_Witness ==
    \E j \in Jobs :
        /\ pc[j] = "done" /\ http[j] = 200
        /\ \E k1, k2 \in UploadsOf(j) :
             k1 < k2 /\ ~upLog[k1].ok /\ upLog[k2].ok
        /\ \E idx \in DOMAIN results[j] : results[j][idx].status # "ok"

\* The slots of operation j whose result a step changes.
ChangedSlots(j) ==
    {i \in DOMAIN results[j] : results'[j][i] # results[j][i]}

\* C19: a step that changes the results of an operation is the creation of
\* the list, or the validation of request i, which changes slot i only and
\* moves on to request i + 1, or the encode of the descriptor of index i,
\* which changes slot i only, moves on to the next descriptor and finds the
\* slot as the list was created: never a slot the validator has written,
\* never a slot an encode has written before.
C19_FrameEffect ==
    [][ \A j \in Jobs :
          results'[j] # results[j] =>
             \/ pc[j] = "start" /\ pc'[j] = "probe"
             \/ /\ pc[j] = "validate"
                /\ DOMAIN results'[j] = DOMAIN results[j]
                /\ ChangedSlots(j) = {vi[j]}
                /\ vi'[j] = vi[j] + 1
                /\ results[j][vi[j]] = Unprocessed
             \/ /\ pc[j] = "encode"
                /\ DOMAIN results'[j] = DOMAIN results[j]
                /\ ei[j] < Len(valid_splits[j])
                /\ ChangedSlots(j) = {valid_splits[j][ei[j] + 1].split_index}
                /\ ei'[j] = ei[j] + 1
                /\ valid_splits'[j] = valid_splits[j]
                /\ \A i \in ChangedSlots(j) :
                     /\ results[j][i] = Unprocessed
                     /\ PassesValidation(j, i)
    ]_vars

\* C19's case: the first request was rejected by the validator, the encode
\* of the second has written slot 1, and the third is still to be encoded.
C19_Witness ==
    \E j \in Jobs :
        /\ pc[j] = "encode" /\ ei[j] = 1
        /\ NumSplits(j) = 3
        /\ results[j][0] = RejectedResult(splits[j][0])
        /\ results[j][1] # Unprocessed
        /\ results[j][2] = Unprocessed

\* C20: when split_video has returned normally, by the early return or after
\* the encode loop, no result is the initial "Unprocessed" entry: a
\* rejected request holds the validator's error, an accepted one the
\* outcome of its ffmpeg run.
C20_NoUnprocessedLeft ==
    \A j \in Jobs :
        Returned(j) =>
            \A i \in DOMAIN results[j] :
                /\ results[j][i] # Unprocessed
                /\ results[j][i].status = "error" =>
                     results[j][i].error.kind # "Unprocessed"
                /\ PassesValidation(j, i) <=> RunsOf(j, i) # {}

\* C20's case: split_video has just returned after the encode loop with a
\* rejected request and an encoded one.
C20_Witness ==
    \E j \in Jobs :
        /\ Returned(j)
        /\ NumSplits(j) = 2
        /\ results[j][0] = RejectedResult(splits[j][0])
        /\ RunsOf(j, 1) # {}
        /\ Len(response[j]) = 0

====
